---- MODULE Spec2Model ----
(***************************************************************************)
(* Model of proj2.c: water molecules are built from oxygen and hydrogen   *)
(* child processes that synchronise through semaphores kept in shared     *)
(* memory.  One action per semaphore operation or shared-memory access of *)
(* a process; a run of operations that no other process can observe is    *)
(* one action (noted at the action).                                      *)
(***************************************************************************)
EXTENDS Integers, Sequences, FiniteSets, TLC

\* ------------------------------------------------------------------ bounds
\* Largest NO and NH of a run whose arguments are accepted.
MaxNO == 2
MaxNH == 4
\* Most units of a run explored one semaphore operation at a time.
FineUnits == 4

\* ------------------------------------------------------- program constants
\* parse_argument(argv[1], 1, LONG_MAX): TLC's integers end at 2^31 - 1, which
\* stands for LONG_MAX; every argument string enumerated below has at most four
\* digits, so no parsed number comes near either value.
LONG_MAX == 2147483647
MinUnits == 1
MinTime == 0
MaxTime == 1000

\* ------------------------------------------------------------------- state
VARIABLES
    argv,                \* the argument strings after the program name
    args,                \* arguments_t: no, nh, ti, tb
    mainpc,              \* position of the parent process in main
    exitCode,            \* exit code of the parent, -1 while it runs
    shmAttached,         \* shared memory segment exists (init_shared .. destroy_shared)
    logOpened,           \* proj2.out was created by open_log
    semsLive,            \* the semaphores are initialised and not destroyed
    spawned,             \* main's counter of forked children
    oxygen_count,
    hydrogen_count,
    molecule_count,
    oxygen_processed,
    hydrogen_processed,
    turnstile_count,
    not_enough,
    log_line_number,
    sem,                 \* value of each semaphore
    pc,                  \* position of each child process
    inflog,              \* children between sem_wait and sem_post of flog
    loc,                 \* per child: the value it last read into a register
    lines,               \* per child: its lines of proj2.out, in file order
    lognums,             \* the sequence numbers of proj2.out, in file order
    reserved,            \* history: reservations made so far (lines 244-247, 314-317)
    party                \* history, per child: the reservation whose token it took

vars == <<argv, args, mainpc, exitCode, shmAttached, logOpened, semsLive, spawned,
          oxygen_count, hydrogen_count, molecule_count, oxygen_processed,
          hydrogen_processed, turnstile_count, not_enough, log_line_number,
          sem, pc, inflog, loc, lines, lognums, reserved, party>>

sharedVars == <<oxygen_count, hydrogen_count, molecule_count, oxygen_processed,
                hydrogen_processed, turnstile_count, not_enough>>

mainVars == <<argv, args, mainpc, exitCode, shmAttached, logOpened, semsLive, spawned>>

\* -------------------------------------------------------------- semaphores
Sem == {"SEM_MUTEX", "SEM_OXYGEN_QUEUE", "SEM_HYDROGEN_QUEUE", "SEM_LOG_MUTEX",
        "SEM_TURNSTILE_MUTEX", "SEM_TURNSTILE", "SEM_TURNSTILE2"}

SemInitialValues ==
    [s \in Sem |-> IF s \in {"SEM_TURNSTILE2", "SEM_MUTEX", "SEM_LOG_MUTEX",
                             "SEM_TURNSTILE_MUTEX"} THEN 1 ELSE 0]

\* sem_wait can return: the value is positive.
CanWait(s) == sem[s] > 0

\* The semaphore values after the waits and posts of one action: `delta` gives
\* posts minus waits for the semaphores it touches.
SemApply(delta) ==
    [s \in Sem |-> IF s \in DOMAIN delta THEN sem[s] + delta[s] ELSE sem[s]]

\* --------------------------------------------------------------- processes
Oxygens == {<<"O", i>> : i \in 1..MaxNO}
Hydrogens == {<<"H", i>> : i \in 1..MaxNH}
Procs == Oxygens \cup Hydrogens

\* A unit is its kind, O or H, and its id, counted from 1 within the kind.
Kind(p) == p[1]

\* The queue a unit of this kind waits on.
QueueOf(p) == IF Kind(p) = "O" THEN "SEM_OXYGEN_QUEUE" ELSE "SEM_HYDROGEN_QUEUE"

\* The child forked when main's counter `spawned` is n: oxygens 1..no first,
\* then hydrogens 1..nh.
ChildAt(n) == IF n < args.no THEN <<"O", n + 1>> ELSE <<"H", n - args.no + 1>>

Spawned == {ChildAt(n) : n \in 0..(spawned - 1)}

\* ------------------------------------------------------- argument parsing
DigitChars == {"0", "1", "2", "3", "4", "5", "6", "7", "8", "9"}

DigitVal(c) ==
    CASE c = "0" -> 0 [] c = "1" -> 1 [] c = "2" -> 2 [] c = "3" -> 3 [] c = "4" -> 4
      [] c = "5" -> 5 [] c = "6" -> 6 [] c = "7" -> 7 [] c = "8" -> 8 [] c = "9" -> 9

\* strtoul(str, &end, 10) on a string of digits and letters: the value of the
\* longest digit prefix and the index of the first character not consumed
\* (Len(str) + 1 is the terminating '\0'; 1 means nothing was consumed).
RECURSIVE StrtoulFrom(_, _, _)
StrtoulFrom(str, i, acc) ==
    IF i <= Len(str) /\ str[i] \in DigitChars
    THEN StrtoulFrom(str, i + 1, acc * 10 + DigitVal(str[i]))
    ELSE [number |-> acc, end |-> i]

strtoul(str) == StrtoulFrom(str, 1, 0)

\* A parse_argument that does not test the lower limit.
parse_argument_no_min(str, min, max) ==
    LET r == strtoul(str) IN
    IF r.end = 1 \/ r.end # Len(str) + 1 \/ r.number > max
    THEN -1
    ELSE r.number

\* A parse_argument that does not test the upper limit.
parse_argument_no_max(str, min, max) ==
    LET r == strtoul(str) IN
    IF r.end = 1 \/ r.end # Len(str) + 1 \/ r.number < min
    THEN -1
    ELSE r.number

\* parse_argument: the number, or -1 where the program exits with EXIT_FAILURE.
parse_argument(str, min, max) ==
    LET r == strtoul(str) IN
    IF r.end = 1 \/ r.end # Len(str) + 1 \/ r.number > max \/ r.number < min
    THEN -1
    ELSE r.number

\* The decimal numeral of a small number, as argv holds it.
Numeral(n) ==
    LET d(k) == CHOOSE c \in DigitChars : DigitVal(c) = k IN
    IF n < 10 THEN <<d(n)>> ELSE <<d(n \div 10), d(n % 10)>>

\* Argument vectors of the runs explored: every accepted NO, NH within the
\* bounds with no delay, one accepted run with the largest delays, and vectors
\* that parse_argument or the argument count rejects.
ValidArgv ==
    {<<Numeral(no), Numeral(nh), <<"0">>, <<"0">>>> : no \in 1..MaxNO, nh \in 1..MaxNH}
    \cup {<<<<"1">>, <<"1">>, <<"1", "0", "0", "0">>, <<"1", "0", "0", "0">>>>}

InvalidArgv ==
    {<<<<"0">>, <<"5">>, <<"0">>, <<"0">>>>,
     <<<<"1">>, <<"0">>, <<"0">>, <<"0">>>>,
     <<<<"1">>, <<"2">>, <<"2", "0", "0", "0">>, <<"0">>>>,
     <<<<"1">>, <<"2">>, <<"0">>, <<"1", "0", "0", "1">>>>,
     <<<<"x">>, <<"2">>, <<"0">>, <<"0">>>>,
     <<<<"2">>, <<"3", "x">>, <<"0">>, <<"0">>>>,
     <<<<"2">>, <<"4">>, <<>>, <<"0">>>>,
     <<<<"1">>, <<"2">>, <<"0">>>>}

ArgVectors == ValidArgv \cup InvalidArgv

NoArgs == [no |-> 0, nh |-> 0, ti |-> 0, tb |-> 0]

\* -------------------------------------------------------------------- init
Init ==
    /\ argv \in ArgVectors
    /\ args = NoArgs
    /\ mainpc = "parse"
    /\ exitCode = -1
    /\ shmAttached = FALSE
    /\ logOpened = FALSE
    /\ semsLive = FALSE
    /\ spawned = 0
    /\ oxygen_count = 0
    /\ hydrogen_count = 0
    /\ molecule_count = 0
    /\ oxygen_processed = 0
    /\ hydrogen_processed = 0
    /\ turnstile_count = 0
    /\ not_enough = FALSE
    /\ log_line_number = 0
    /\ sem = [s \in Sem |-> 0]
    /\ pc = [p \in Procs |-> "unborn"]
    /\ inflog = {}
    /\ loc = [p \in Procs |-> 0]
    /\ lines = [p \in Procs |-> <<>>]
    /\ lognums = <<>>
    /\ reserved = 0
    /\ party = [p \in Procs |-> 0]

childVars == <<pc, inflog, loc, lines, lognums>>

\* The history variables: no action reads them to decide what the program does.
partyVars == <<reserved, party>>

\* ------------------------------------------------------------------- main
\* main, lines 349-359: the argument count and the four parse_argument calls;
\* the first rejected argument ends the program with exit code 1.
MainParse ==
    /\ mainpc = "parse"
    /\ IF Len(argv) # 4
       THEN /\ mainpc' = "exit"
            /\ exitCode' = 1
            /\ args' = args
       ELSE LET no == parse_argument(argv[1], MinUnits, LONG_MAX)
                nh == parse_argument(argv[2], MinUnits, LONG_MAX)
                ti == parse_argument(argv[3], MinTime, MaxTime)
                tb == parse_argument(argv[4], MinTime, MaxTime)
            IN IF no = -1 \/ nh = -1 \/ ti = -1 \/ tb = -1
               THEN /\ mainpc' = "exit"
                    /\ exitCode' = 1
                    /\ args' = args
               ELSE /\ mainpc' = "init"
                    /\ exitCode' = exitCode
                    /\ args' = [no |-> no, nh |-> nh, ti |-> ti, tb |-> tb]
    /\ UNCHANGED <<argv, shmAttached, logOpened, semsLive, spawned>>
    /\ UNCHANGED sharedVars
    /\ UNCHANGED <<log_line_number, sem>>
    /\ UNCHANGED childVars
    /\ UNCHANGED partyVars

\* A startup test that looks at the oxygens only.
CannotStartNoOxygen == args.no = 0

\* A startup test that also gives up on two hydrogens.
CannotStartOffByOne == args.no = 0 \/ args.nh <= 2

\* main, line 386: not even one molecule can be created.
CannotStart == args.no = 0 \/ args.nh < 2

\* main, lines 361-390: init_shared, open_log, init_semaphores, malloc, and the
\* test whether one molecule can be created at all.  The four calls succeed in
\* the runs explored; their error paths (lines 446-454) are not part of Next.
MainInit ==
    /\ mainpc = "init"
    /\ mainpc' = "spawn"
    /\ shmAttached' = TRUE
    /\ logOpened' = TRUE
    /\ semsLive' = TRUE
    /\ log_line_number' = 1
    /\ hydrogen_count' = 0
    /\ oxygen_count' = 0
    /\ molecule_count' = 0
    /\ oxygen_processed' = 0
    /\ hydrogen_processed' = 0
    /\ turnstile_count' = 0
    /\ IF CannotStart
       THEN /\ not_enough' = TRUE
            /\ sem' = [SemInitialValues EXCEPT !["SEM_OXYGEN_QUEUE"] = 1,
                                               !["SEM_HYDROGEN_QUEUE"] = 1]
       ELSE /\ not_enough' = FALSE
            /\ sem' = SemInitialValues
    /\ UNCHANGED <<argv, args, exitCode, spawned>>
    /\ UNCHANGED childVars
    /\ UNCHANGED partyVars

\* main, lines 393-420: one successful fork; the child starts at the top of
\* oxygen_process or hydrogen_process.  A failing fork is MainForkFail, which
\* ForkSpec explores.
MainFork ==
    /\ mainpc = "spawn"
    /\ spawned < args.no + args.nh
    /\ spawned' = spawned + 1
    /\ pc' = [pc EXCEPT ![ChildAt(spawned)] = "started"]
    /\ UNCHANGED <<argv, args, mainpc, exitCode, shmAttached, logOpened, semsLive>>
    /\ UNCHANGED sharedVars
    /\ UNCHANGED <<log_line_number, sem, inflog, loc, lines, lognums>>
    /\ UNCHANGED partyVars

\* main, lines 422-433: the wait loop returns once every spawned child has
\* exited (each wait(NULL) reaps one of them), then the cleanup and return 0.
MainJoin ==
    /\ mainpc = "spawn"
    /\ spawned = args.no + args.nh
    /\ \A p \in Spawned : pc[p] = "done"
    /\ mainpc' = "exit"
    /\ exitCode' = 0
    /\ semsLive' = FALSE
    /\ shmAttached' = FALSE
    /\ UNCHANGED <<argv, args, logOpened, spawned>>
    /\ UNCHANGED sharedVars
    /\ UNCHANGED <<log_line_number, sem>>
    /\ UNCHANGED childVars
    /\ UNCHANGED partyVars

\* ------------------------------------------------------------------- flog
\* The points of a child where it calls flog, named by the line it writes.
FlogSites == {"started", "going", "notenough", "creating", "created"}

\* Where a child continues after the flog call at pc[p].
AfterFlog(p) ==
    CASE pc[p] = "started" -> "going"
      [] pc[p] = "going" -> "mutex"
      [] pc[p] = "notenough" -> "bail"
      [] pc[p] = "creating" -> IF Kind(p) = "O" THEN "incr" ELSE "hp_load"
      [] pc[p] = "created" -> IF Kind(p) = "O" THEN "eval" ELSE "done"

\* The line a child writes at pc[p]: the event and its molecule number (0 for
\* the lines that carry none).
LogLine(p) == <<pc[p], IF pc[p] \in {"creating", "created"} THEN loc[p] ELSE 0>>

\* A flog that prints without waiting for the log mutex.
FlogEnterNoWait(p) ==
    /\ pc[p] \in FlogSites
    /\ p \notin inflog
    /\ sem' = SemApply([SEM_LOG_MUTEX |-> -1])
    /\ inflog' = inflog \cup {p}
    /\ lognums' = Append(lognums, log_line_number)
    /\ lines' = [lines EXCEPT ![p] = Append(@, LogLine(p))]
    /\ UNCHANGED mainVars
    /\ UNCHANGED sharedVars
    /\ UNCHANGED <<log_line_number, pc, loc>>
    /\ UNCHANGED partyVars

\* flog, lines 160-167: sem_wait(SEM_LOG_MUTEX), then the line is printed with
\* the current log_line_number and flushed.  The molecule number of the line
\* was evaluated by the caller before the call (loc).
FlogEnter(p) ==
    /\ pc[p] \in FlogSites
    /\ p \notin inflog
    /\ CanWait("SEM_LOG_MUTEX")
    /\ sem' = SemApply([SEM_LOG_MUTEX |-> -1])
    /\ inflog' = inflog \cup {p}
    /\ lognums' = Append(lognums, log_line_number)
    /\ lines' = [lines EXCEPT ![p] = Append(@, LogLine(p))]
    /\ UNCHANGED mainVars
    /\ UNCHANGED sharedVars
    /\ UNCHANGED <<log_line_number, pc, loc>>
    /\ UNCHANGED partyVars

\* flog, lines 169-171: log_line_number++ and sem_post(SEM_LOG_MUTEX).
FlogLeave(p) ==
    /\ p \in inflog
    /\ log_line_number' = log_line_number + 1
    /\ sem' = SemApply([SEM_LOG_MUTEX |-> 1])
    /\ inflog' = inflog \ {p}
    /\ pc' = [pc EXCEPT ![p] = AfterFlog(p)]
    /\ loc' = [loc EXCEPT ![p] = 0]
    /\ UNCHANGED mainVars
    /\ UNCHANGED sharedVars
    /\ UNCHANGED <<lines, lognums>>
    /\ UNCHANGED partyVars

\* -------------------------------------------------------------- admission
\* oxygen_process line 240, hydrogen_process line 310: sem_wait(SEM_MUTEX).
WaitMutex(p) ==
    /\ pc[p] = "mutex"
    /\ CanWait("SEM_MUTEX")
    /\ sem' = SemApply([SEM_MUTEX |-> -1])
    /\ pc' = [pc EXCEPT ![p] = "admit"]
    /\ UNCHANGED mainVars
    /\ UNCHANGED sharedVars
    /\ UNCHANGED <<log_line_number, inflog, loc, lines, lognums>>
    /\ UNCHANGED partyVars

\* An oxygen that reserves a molecule only when three hydrogens are counted.
OxygenAdmitThree(p) ==
    /\ pc[p] = "admit"
    /\ Kind(p) = "O"
    /\ IF hydrogen_count >= 3
       THEN /\ sem' = SemApply([SEM_HYDROGEN_QUEUE |-> 2, SEM_OXYGEN_QUEUE |-> 1])
            /\ hydrogen_count' = hydrogen_count - 2
            /\ oxygen_count' = (oxygen_count + 1) - 1
            /\ reserved' = reserved + 1
       ELSE /\ sem' = SemApply([SEM_MUTEX |-> 1])
            /\ hydrogen_count' = hydrogen_count
            /\ oxygen_count' = oxygen_count + 1
            /\ reserved' = reserved
    /\ pc' = [pc EXCEPT ![p] = "queue"]
    /\ UNCHANGED mainVars
    /\ UNCHANGED <<molecule_count, oxygen_processed, hydrogen_processed,
                   turnstile_count, not_enough>>
    /\ UNCHANGED <<log_line_number, inflog, loc, lines, lognums>>
    /\ party' = party

\* oxygen_process, lines 241-250: the counters are touched only between the
\* sem_wait above and the posts of this block.
OxygenAdmit(p) ==
    /\ pc[p] = "admit"
    /\ Kind(p) = "O"
    /\ IF hydrogen_count >= 2
       THEN /\ sem' = SemApply([SEM_HYDROGEN_QUEUE |-> 2, SEM_OXYGEN_QUEUE |-> 1])
            /\ hydrogen_count' = hydrogen_count - 2
            /\ oxygen_count' = (oxygen_count + 1) - 1
            /\ reserved' = reserved + 1
       ELSE /\ sem' = SemApply([SEM_MUTEX |-> 1])
            /\ hydrogen_count' = hydrogen_count
            /\ oxygen_count' = oxygen_count + 1
            /\ reserved' = reserved
    /\ pc' = [pc EXCEPT ![p] = "queue"]
    /\ UNCHANGED mainVars
    /\ UNCHANGED <<molecule_count, oxygen_processed, hydrogen_processed,
                   turnstile_count, not_enough>>
    /\ UNCHANGED <<log_line_number, inflog, loc, lines, lognums>>
    /\ party' = party

\* hydrogen_process, lines 311-320.
HydrogenAdmit(p) ==
    /\ pc[p] = "admit"
    /\ Kind(p) = "H"
    /\ IF hydrogen_count + 1 >= 2 /\ oxygen_count >= 1
       THEN /\ sem' = SemApply([SEM_HYDROGEN_QUEUE |-> 2, SEM_OXYGEN_QUEUE |-> 1])
            /\ hydrogen_count' = (hydrogen_count + 1) - 2
            /\ oxygen_count' = oxygen_count - 1
            /\ reserved' = reserved + 1
       ELSE /\ sem' = SemApply([SEM_MUTEX |-> 1])
            /\ hydrogen_count' = hydrogen_count + 1
            /\ oxygen_count' = oxygen_count
            /\ reserved' = reserved
    /\ pc' = [pc EXCEPT ![p] = "queue"]
    /\ UNCHANGED mainVars
    /\ UNCHANGED <<molecule_count, oxygen_processed, hydrogen_processed,
                   turnstile_count, not_enough>>
    /\ UNCHANGED <<log_line_number, inflog, loc, lines, lognums>>
    /\ party' = party

\* oxygen_process line 251, hydrogen_process line 321: sem_wait on the queue of
\* the unit's kind.
WaitQueue(p) ==
    /\ pc[p] = "queue"
    /\ CanWait(QueueOf(p))
    /\ sem' = [sem EXCEPT ![QueueOf(p)] = @ - 1]
    /\ pc' = [pc EXCEPT ![p] = "check"]
    /\ UNCHANGED mainVars
    /\ UNCHANGED sharedVars
    /\ UNCHANGED <<log_line_number, inflog, loc, lines, lognums>>
    /\ UNCHANGED partyVars

\* Lines 254 and 264 (oxygen), 324 and 333 (hydrogen): the read of not_enough
\* and, when it is false, the evaluation of molecule_count + 1 for the
\* "creating molecule" line.  not_enough does not change between the two reads
\* of a unit that goes on, so they are one action.
CheckEnough(p) ==
    /\ pc[p] = "check"
    /\ IF not_enough
       THEN /\ pc' = [pc EXCEPT ![p] = "notenough"]
            /\ loc' = loc
            /\ party' = party
       ELSE /\ pc' = [pc EXCEPT ![p] = "creating"]
            /\ loc' = [loc EXCEPT ![p] = molecule_count + 1]
            /\ party' = [party EXCEPT ![p] = reserved]
    /\ UNCHANGED mainVars
    /\ UNCHANGED sharedVars
    /\ UNCHANGED <<log_line_number, sem, inflog, lines, lognums>>
    /\ reserved' = reserved

\* An oxygen that posts and then, lacking the exit, goes on to create a molecule.
OxygenBailNoExit(p) ==
    /\ pc[p] = "bail"
    /\ Kind(p) = "O"
    /\ sem' = SemApply([SEM_MUTEX |-> 1, SEM_OXYGEN_QUEUE |-> 1, SEM_HYDROGEN_QUEUE |-> 1])
    /\ pc' = [pc EXCEPT ![p] = "creating"]
    /\ UNCHANGED mainVars
    /\ UNCHANGED sharedVars
    /\ UNCHANGED <<log_line_number, inflog, loc, lines, lognums>>
    /\ UNCHANGED partyVars

\* oxygen_process, lines 256-260: three posts, then exit(0).  A post never
\* blocks and commutes with every step of another process.
OxygenBail(p) ==
    /\ pc[p] = "bail"
    /\ Kind(p) = "O"
    /\ sem' = SemApply([SEM_MUTEX |-> 1, SEM_OXYGEN_QUEUE |-> 1, SEM_HYDROGEN_QUEUE |-> 1])
    /\ pc' = [pc EXCEPT ![p] = "done"]
    /\ UNCHANGED mainVars
    /\ UNCHANGED sharedVars
    /\ UNCHANGED <<log_line_number, inflog, loc, lines, lognums>>
    /\ UNCHANGED partyVars

\* hydrogen_process, lines 326-329.
HydrogenBail(p) ==
    /\ pc[p] = "bail"
    /\ Kind(p) = "H"
    /\ sem' = SemApply([SEM_OXYGEN_QUEUE |-> 1, SEM_HYDROGEN_QUEUE |-> 1])
    /\ pc' = [pc EXCEPT ![p] = "done"]
    /\ UNCHANGED mainVars
    /\ UNCHANGED sharedVars
    /\ UNCHANGED <<log_line_number, inflog, loc, lines, lognums>>
    /\ UNCHANGED partyVars

\* ------------------------------------------------------- molecule creation
\* oxygen_process, lines 267-269: molecule_count++ and oxygen_processed++.
\* oxygen_processed is read and written by the oxygen of a party alone.
OxygenIncr(p) ==
    /\ pc[p] = "incr"
    /\ molecule_count' = molecule_count + 1
    /\ oxygen_processed' = oxygen_processed + 1
    /\ pc' = [pc EXCEPT ![p] = "b_in"]
    /\ UNCHANGED mainVars
    /\ UNCHANGED <<oxygen_count, hydrogen_count, hydrogen_processed, turnstile_count,
                   not_enough>>
    /\ UNCHANGED <<log_line_number, sem, inflog, loc, lines, lognums>>
    /\ UNCHANGED partyVars

\* hydrogen_process, line 334: hydrogen_processed++ is a load, an add and a
\* store, done without any lock; this is the load.
HydrogenLoad(p) ==
    /\ pc[p] = "hp_load"
    /\ loc' = [loc EXCEPT ![p] = hydrogen_processed]
    /\ pc' = [pc EXCEPT ![p] = "hp_store"]
    /\ UNCHANGED mainVars
    /\ UNCHANGED sharedVars
    /\ UNCHANGED <<log_line_number, sem, inflog, lines, lognums>>
    /\ UNCHANGED partyVars

\* hydrogen_process, line 334: the store of the incremented value.
HydrogenStore(p) ==
    /\ pc[p] = "hp_store"
    /\ hydrogen_processed' = loc[p] + 1
    /\ loc' = [loc EXCEPT ![p] = 0]
    /\ pc' = [pc EXCEPT ![p] = "b_in"]
    /\ UNCHANGED mainVars
    /\ UNCHANGED <<oxygen_count, hydrogen_count, molecule_count, oxygen_processed,
                   turnstile_count, not_enough>>
    /\ UNCHANGED <<log_line_number, sem, inflog, lines, lognums>>
    /\ UNCHANGED partyVars

\* ----------------------------------------------------------------- barrier
\* A barrier that opens the first turnstile at the second arrival.
BarrierArriveAtTwo(p) ==
    /\ pc[p] = "b_in"
    /\ CanWait("SEM_TURNSTILE_MUTEX")
    /\ turnstile_count' = turnstile_count + 1
    /\ IF turnstile_count + 1 = 2
       THEN /\ sem' = SemApply([SEM_TURNSTILE_MUTEX |-> -1])
            /\ pc' = [pc EXCEPT ![p] = "b_in3"]
       ELSE /\ sem' = sem
            /\ pc' = [pc EXCEPT ![p] = "b_t1"]
    /\ UNCHANGED mainVars
    /\ UNCHANGED <<oxygen_count, hydrogen_count, molecule_count, oxygen_processed,
                   hydrogen_processed, not_enough>>
    /\ UNCHANGED <<log_line_number, inflog, loc, lines, lognums>>
    /\ UNCHANGED partyVars

\* barrier, lines 201-207, arrival of a unit: sem_wait(SEM_TURNSTILE_MUTEX) and
\* turnstile_count++.  The first two arrivals post the mutex at once; the third
\* keeps it while it waits for the second turnstile.
BarrierArrive(p) ==
    /\ pc[p] = "b_in"
    /\ CanWait("SEM_TURNSTILE_MUTEX")
    /\ turnstile_count' = turnstile_count + 1
    /\ IF turnstile_count + 1 = 3
       THEN /\ sem' = SemApply([SEM_TURNSTILE_MUTEX |-> -1])
            /\ pc' = [pc EXCEPT ![p] = "b_in3"]
       ELSE /\ sem' = sem
            /\ pc' = [pc EXCEPT ![p] = "b_t1"]
    /\ UNCHANGED mainVars
    /\ UNCHANGED <<oxygen_count, hydrogen_count, molecule_count, oxygen_processed,
                   hydrogen_processed, not_enough>>
    /\ UNCHANGED <<log_line_number, inflog, loc, lines, lognums>>
    /\ UNCHANGED partyVars

\* barrier, lines 204-207, the third arrival: sem_wait(SEM_TURNSTILE2),
\* sem_post(SEM_TURNSTILE), sem_post(SEM_TURNSTILE_MUTEX).
BarrierOpenFirst(p) ==
    /\ pc[p] = "b_in3"
    /\ CanWait("SEM_TURNSTILE2")
    /\ sem' = SemApply([SEM_TURNSTILE2 |-> -1, SEM_TURNSTILE |-> 1,
                        SEM_TURNSTILE_MUTEX |-> 1])
    /\ pc' = [pc EXCEPT ![p] = "b_t1"]
    /\ UNCHANGED mainVars
    /\ UNCHANGED sharedVars
    /\ UNCHANGED <<log_line_number, inflog, loc, lines, lognums>>
    /\ UNCHANGED partyVars

\* barrier, lines 208-209: sem_wait(SEM_TURNSTILE), sem_post(SEM_TURNSTILE).
\* The unit hands the token on at once, so the pair leaves the value as it is.
TurnstilePass(p) ==
    /\ pc[p] = "b_t1"
    /\ CanWait("SEM_TURNSTILE")
    /\ pc' = [pc EXCEPT ![p] = "b_out"]
    /\ UNCHANGED mainVars
    /\ UNCHANGED sharedVars
    /\ UNCHANGED <<log_line_number, sem, inflog, loc, lines, lognums>>
    /\ UNCHANGED partyVars

\* barrier, lines 210-216, departure of a unit: sem_wait(SEM_TURNSTILE_MUTEX)
\* and turnstile_count--.  The last to leave keeps the mutex while it closes
\* the first turnstile.
BarrierLeave(p) ==
    /\ pc[p] = "b_out"
    /\ CanWait("SEM_TURNSTILE_MUTEX")
    /\ turnstile_count' = turnstile_count - 1
    /\ IF turnstile_count - 1 = 0
       THEN /\ sem' = SemApply([SEM_TURNSTILE_MUTEX |-> -1])
            /\ pc' = [pc EXCEPT ![p] = "b_out0"]
       ELSE /\ sem' = sem
            /\ pc' = [pc EXCEPT ![p] = "b_t2"]
    /\ UNCHANGED mainVars
    /\ UNCHANGED <<oxygen_count, hydrogen_count, molecule_count, oxygen_processed,
                   hydrogen_processed, not_enough>>
    /\ UNCHANGED <<log_line_number, inflog, loc, lines, lognums>>
    /\ UNCHANGED partyVars

\* barrier, lines 213-216, the last to leave: sem_wait(SEM_TURNSTILE),
\* sem_post(SEM_TURNSTILE2), sem_post(SEM_TURNSTILE_MUTEX).
BarrierOpenSecond(p) ==
    /\ pc[p] = "b_out0"
    /\ CanWait("SEM_TURNSTILE")
    /\ sem' = SemApply([SEM_TURNSTILE |-> -1, SEM_TURNSTILE2 |-> 1,
                        SEM_TURNSTILE_MUTEX |-> 1])
    /\ pc' = [pc EXCEPT ![p] = "b_t2"]
    /\ UNCHANGED mainVars
    /\ UNCHANGED sharedVars
    /\ UNCHANGED <<log_line_number, inflog, loc, lines, lognums>>
    /\ UNCHANGED partyVars

\* barrier, lines 217-218: sem_wait(SEM_TURNSTILE2), sem_post(SEM_TURNSTILE2);
\* barrier returns.
Turnstile2Pass(p) ==
    /\ pc[p] = "b_t2"
    /\ CanWait("SEM_TURNSTILE2")
    /\ pc' = [pc EXCEPT ![p] = "rd_created"]
    /\ UNCHANGED mainVars
    /\ UNCHANGED sharedVars
    /\ UNCHANGED <<log_line_number, sem, inflog, loc, lines, lognums>>
    /\ UNCHANGED partyVars

\* ------------------------------------------------------ after the barrier
\* Lines 273 and 338: molecule_count is evaluated as the argument of the
\* "molecule created" line, before flog takes the log mutex.
ReadCreated(p) ==
    /\ pc[p] = "rd_created"
    /\ loc' = [loc EXCEPT ![p] = molecule_count]
    /\ pc' = [pc EXCEPT ![p] = "created"]
    /\ UNCHANGED mainVars
    /\ UNCHANGED sharedVars
    /\ UNCHANGED <<log_line_number, sem, inflog, lines, lognums>>
    /\ UNCHANGED partyVars

\* The two tests of oxygen_process, lines 276 and 279-280, on unsigned
\* differences: the counters never pass the configured numbers (CountersInRange).
OxygenLeftHydrogenShort ==
    args.no - oxygen_processed >= 1 /\ args.nh - hydrogen_processed < 2

OxygenGoneHydrogenLeft ==
    args.no - oxygen_processed = 0 /\ args.nh - hydrogen_processed > 0

\* oxygen_process, lines 276-288: the supply test, sem_post(SEM_MUTEX), exit(0).
\* Nothing else writes not_enough, and a post never blocks.
OxygenEval(p) ==
    /\ pc[p] = "eval"
    /\ IF OxygenLeftHydrogenShort
       THEN /\ not_enough' = TRUE
            /\ sem' = SemApply([SEM_OXYGEN_QUEUE |-> 1, SEM_MUTEX |-> 1])
       ELSE IF OxygenGoneHydrogenLeft
            THEN /\ not_enough' = TRUE
                 /\ sem' = SemApply([SEM_HYDROGEN_QUEUE |-> 1, SEM_MUTEX |-> 1])
            ELSE /\ not_enough' = not_enough
                 /\ sem' = SemApply([SEM_MUTEX |-> 1])
    /\ pc' = [pc EXCEPT ![p] = "done"]
    /\ UNCHANGED mainVars
    /\ UNCHANGED <<oxygen_count, hydrogen_count, molecule_count, oxygen_processed,
                   hydrogen_processed, turnstile_count>>
    /\ UNCHANGED <<log_line_number, inflog, loc, lines, lognums>>
    /\ UNCHANGED partyVars

\* ------------------------------------------------------------ next, spec
\* ----------------------------------------------------- the reduced steps
\* The actions above take one semaphore operation or one shared access at a
\* time.  The actions below are the same code in larger steps, each a run of
\* operations of one process that is atomic by reduction: leading sem_waits,
\* at most one access another process can race with, flog calls (flog touches
\* nothing but the log, of which the state keeps each unit's own lines and the
\* column of sequence numbers, and it never blocks while it holds the log
\* mutex), and trailing sem_posts.  Spec explores the larger steps, FineSpec the
\* single operations on the smaller runs.

\* The log after flog calls writing `new` (a sequence of lines) for unit p.
LinesAfter(p, new) == [lines EXCEPT ![p] = @ \o new]

NumsAfter(n) == lognums \o [i \in 1..n |-> log_line_number + i - 1]

\* oxygen_process lines 235-237, hydrogen_process lines 305-307: the "started"
\* line, wait_rand(args.ti) and the "going to queue" line.
StartUnit(p) ==
    /\ pc[p] = "started"
    /\ CanWait("SEM_LOG_MUTEX")
    /\ lognums' = NumsAfter(2)
    /\ lines' = LinesAfter(p, <<<<"started", 0>>, <<"going", 0>>>>)
    /\ log_line_number' = log_line_number + 2
    /\ pc' = [pc EXCEPT ![p] = "mutex"]
    /\ UNCHANGED mainVars
    /\ UNCHANGED sharedVars
    /\ UNCHANGED <<sem, inflog, loc>>
    /\ UNCHANGED partyVars

\* An oxygen that posts the mutex after its admission whether or not it
\* reserved a molecule.
OxygenEnterReleases(p) ==
    /\ pc[p] = "mutex"
    /\ Kind(p) = "O"
    /\ CanWait("SEM_MUTEX")
    /\ IF hydrogen_count >= 2
       THEN /\ sem' = SemApply([SEM_HYDROGEN_QUEUE |-> 2, SEM_OXYGEN_QUEUE |-> 1])
            /\ hydrogen_count' = hydrogen_count - 2
            /\ oxygen_count' = (oxygen_count + 1) - 1
            /\ reserved' = reserved + 1
       ELSE /\ sem' = sem
            /\ hydrogen_count' = hydrogen_count
            /\ oxygen_count' = oxygen_count + 1
            /\ reserved' = reserved
    /\ pc' = [pc EXCEPT ![p] = "queue"]
    /\ UNCHANGED mainVars
    /\ UNCHANGED <<molecule_count, oxygen_processed, hydrogen_processed,
                   turnstile_count, not_enough>>
    /\ UNCHANGED <<log_line_number, inflog, loc, lines, lognums>>
    /\ party' = party

\* oxygen_process, lines 240-250: sem_wait(SEM_MUTEX) and the admission; the
\* mutex is posted again unless the unit reserves a molecule.
OxygenEnter(p) ==
    /\ pc[p] = "mutex"
    /\ Kind(p) = "O"
    /\ CanWait("SEM_MUTEX")
    /\ IF hydrogen_count >= 2
       THEN /\ sem' = SemApply([SEM_MUTEX |-> -1, SEM_HYDROGEN_QUEUE |-> 2,
                                SEM_OXYGEN_QUEUE |-> 1])
            /\ hydrogen_count' = hydrogen_count - 2
            /\ oxygen_count' = (oxygen_count + 1) - 1
            /\ reserved' = reserved + 1
       ELSE /\ sem' = sem
            /\ hydrogen_count' = hydrogen_count
            /\ oxygen_count' = oxygen_count + 1
            /\ reserved' = reserved
    /\ pc' = [pc EXCEPT ![p] = "queue"]
    /\ UNCHANGED mainVars
    /\ UNCHANGED <<molecule_count, oxygen_processed, hydrogen_processed,
                   turnstile_count, not_enough>>
    /\ UNCHANGED <<log_line_number, inflog, loc, lines, lognums>>
    /\ party' = party

\* hydrogen_process, lines 310-320.
HydrogenEnter(p) ==
    /\ pc[p] = "mutex"
    /\ Kind(p) = "H"
    /\ CanWait("SEM_MUTEX")
    /\ IF hydrogen_count + 1 >= 2 /\ oxygen_count >= 1
       THEN /\ sem' = SemApply([SEM_MUTEX |-> -1, SEM_HYDROGEN_QUEUE |-> 2,
                                SEM_OXYGEN_QUEUE |-> 1])
            /\ hydrogen_count' = (hydrogen_count + 1) - 2
            /\ oxygen_count' = oxygen_count - 1
            /\ reserved' = reserved + 1
       ELSE /\ sem' = sem
            /\ hydrogen_count' = hydrogen_count + 1
            /\ oxygen_count' = oxygen_count
            /\ reserved' = reserved
    /\ pc' = [pc EXCEPT ![p] = "queue"]
    /\ UNCHANGED mainVars
    /\ UNCHANGED <<molecule_count, oxygen_processed, hydrogen_processed,
                   turnstile_count, not_enough>>
    /\ UNCHANGED <<log_line_number, inflog, loc, lines, lognums>>
    /\ party' = party

\* The posts of a unit that leaves because not_enough is set: oxygen_process
\* lines 256-258, hydrogen_process lines 326-327.
BailPosts(p) ==
    IF Kind(p) = "O"
    THEN [SEM_MUTEX |-> 1, SEM_OXYGEN_QUEUE |-> 1, SEM_HYDROGEN_QUEUE |-> 1]
    ELSE [SEM_OXYGEN_QUEUE |-> 1, SEM_HYDROGEN_QUEUE |-> 1]

\* oxygen_process lines 251-260, hydrogen_process lines 321-329, not_enough
\* read as true: the queue's token is taken, the "not enough" line written, the
\* posts made, exit(0).
WakeBail(p) ==
    /\ pc[p] = "queue"
    /\ CanWait(QueueOf(p))
    /\ not_enough
    /\ CanWait("SEM_LOG_MUTEX")
    /\ sem' = [s \in Sem |-> SemApply(BailPosts(p))[s] - IF s = QueueOf(p) THEN 1 ELSE 0]
    /\ lognums' = NumsAfter(1)
    /\ lines' = LinesAfter(p, <<<<"notenough", 0>>>>)
    /\ log_line_number' = log_line_number + 1
    /\ pc' = [pc EXCEPT ![p] = "done"]
    /\ UNCHANGED mainVars
    /\ UNCHANGED sharedVars
    /\ UNCHANGED <<inflog, loc>>
    /\ UNCHANGED partyVars

\* A unit that goes on to create a molecule without looking at not_enough.
WakeCreateUnchecked(p) ==
    /\ pc[p] = "queue"
    /\ CanWait(QueueOf(p))
    /\ CanWait("SEM_LOG_MUTEX")
    /\ sem' = [sem EXCEPT ![QueueOf(p)] = @ - 1]
    /\ lognums' = NumsAfter(1)
    /\ lines' = LinesAfter(p, <<<<"creating", molecule_count + 1>>>>)
    /\ log_line_number' = log_line_number + 1
    /\ pc' = [pc EXCEPT ![p] = IF Kind(p) = "O" THEN "incr" ELSE "hp_load"]
    /\ UNCHANGED mainVars
    /\ UNCHANGED sharedVars
    /\ UNCHANGED <<inflog, loc>>
    /\ party' = [party EXCEPT ![p] = reserved]
    /\ reserved' = reserved

\* oxygen_process lines 251-264, hydrogen_process lines 321-333, not_enough
\* read as false: the queue's token is taken and the "creating molecule" line
\* written with molecule_count + 1 as read now.
WakeCreate(p) ==
    /\ pc[p] = "queue"
    /\ CanWait(QueueOf(p))
    /\ ~not_enough
    /\ CanWait("SEM_LOG_MUTEX")
    /\ sem' = [sem EXCEPT ![QueueOf(p)] = @ - 1]
    /\ lognums' = NumsAfter(1)
    /\ lines' = LinesAfter(p, <<<<"creating", molecule_count + 1>>>>)
    /\ log_line_number' = log_line_number + 1
    /\ pc' = [pc EXCEPT ![p] = IF Kind(p) = "O" THEN "incr" ELSE "hp_load"]
    /\ UNCHANGED mainVars
    /\ UNCHANGED sharedVars
    /\ UNCHANGED <<inflog, loc>>
    /\ party' = [party EXCEPT ![p] = reserved]
    /\ reserved' = reserved

\* A hydrogen that counts itself after its "molecule created" line.
HydrogenFinishCounts(p) ==
    /\ pc[p] = "rd_created"
    /\ Kind(p) = "H"
    /\ CanWait("SEM_LOG_MUTEX")
    /\ lognums' = NumsAfter(1)
    /\ lines' = LinesAfter(p, <<<<"created", molecule_count>>>>)
    /\ log_line_number' = log_line_number + 1
    /\ hydrogen_processed' = hydrogen_processed + 1
    /\ pc' = [pc EXCEPT ![p] = "done"]
    /\ UNCHANGED mainVars
    /\ UNCHANGED <<oxygen_count, hydrogen_count, molecule_count, oxygen_processed,
                   turnstile_count, not_enough>>
    /\ UNCHANGED <<sem, inflog, loc>>
    /\ UNCHANGED partyVars

\* hydrogen_process, lines 338-342: molecule_count is read, the "molecule
\* created" line written, exit(0).
HydrogenFinish(p) ==
    /\ pc[p] = "rd_created"
    /\ Kind(p) = "H"
    /\ CanWait("SEM_LOG_MUTEX")
    /\ lognums' = NumsAfter(1)
    /\ lines' = LinesAfter(p, <<<<"created", molecule_count>>>>)
    /\ log_line_number' = log_line_number + 1
    /\ pc' = [pc EXCEPT ![p] = "done"]
    /\ UNCHANGED mainVars
    /\ UNCHANGED sharedVars
    /\ UNCHANGED <<sem, inflog, loc>>
    /\ UNCHANGED partyVars

\* An oxygen whose first supply test wakes a unit of each queue.
OxygenFinishBothQueues(p) ==
    /\ pc[p] = "rd_created"
    /\ Kind(p) = "O"
    /\ CanWait("SEM_LOG_MUTEX")
    /\ lognums' = NumsAfter(1)
    /\ lines' = LinesAfter(p, <<<<"created", molecule_count>>>>)
    /\ log_line_number' = log_line_number + 1
    /\ IF OxygenLeftHydrogenShort
       THEN /\ not_enough' = TRUE
            /\ sem' = SemApply([SEM_OXYGEN_QUEUE |-> 1, SEM_HYDROGEN_QUEUE |-> 1,
                                SEM_MUTEX |-> 1])
       ELSE IF OxygenGoneHydrogenLeft
            THEN /\ not_enough' = TRUE
                 /\ sem' = SemApply([SEM_HYDROGEN_QUEUE |-> 1, SEM_MUTEX |-> 1])
            ELSE /\ not_enough' = not_enough
                 /\ sem' = SemApply([SEM_MUTEX |-> 1])
    /\ pc' = [pc EXCEPT ![p] = "done"]
    /\ UNCHANGED mainVars
    /\ UNCHANGED <<oxygen_count, hydrogen_count, molecule_count, oxygen_processed,
                   hydrogen_processed, turnstile_count>>
    /\ UNCHANGED <<inflog, loc>>
    /\ UNCHANGED partyVars

\* oxygen_process, lines 273-288: the "molecule created" line, the supply test
\* with its post, sem_post(SEM_MUTEX), exit(0).
OxygenFinish(p) ==
    /\ pc[p] = "rd_created"
    /\ Kind(p) = "O"
    /\ CanWait("SEM_LOG_MUTEX")
    /\ lognums' = NumsAfter(1)
    /\ lines' = LinesAfter(p, <<<<"created", molecule_count>>>>)
    /\ log_line_number' = log_line_number + 1
    /\ IF OxygenLeftHydrogenShort
       THEN /\ not_enough' = TRUE
            /\ sem' = SemApply([SEM_OXYGEN_QUEUE |-> 1, SEM_MUTEX |-> 1])
       ELSE IF OxygenGoneHydrogenLeft
            THEN /\ not_enough' = TRUE
                 /\ sem' = SemApply([SEM_HYDROGEN_QUEUE |-> 1, SEM_MUTEX |-> 1])
            ELSE /\ not_enough' = not_enough
                 /\ sem' = SemApply([SEM_MUTEX |-> 1])
    /\ pc' = [pc EXCEPT ![p] = "done"]
    /\ UNCHANGED mainVars
    /\ UNCHANGED <<oxygen_count, hydrogen_count, molecule_count, oxygen_processed,
                   hydrogen_processed, turnstile_count>>
    /\ UNCHANGED <<inflog, loc>>
    /\ UNCHANGED partyVars

\* ------------------------------------------------------------ next, spec
\* The steps both granularities share: the racing increments and the barrier.
Shared(p) ==
    \/ OxygenIncr(p)
    \/ HydrogenLoad(p)
    \/ HydrogenStore(p)
    \/ BarrierArrive(p)
    \/ BarrierOpenFirst(p)
    \/ TurnstilePass(p)
    \/ BarrierLeave(p)
    \/ BarrierOpenSecond(p)
    \/ Turnstile2Pass(p)

Reduced(p) ==
    \/ StartUnit(p)
    \/ OxygenEnter(p)
    \/ HydrogenEnter(p)
    \/ WakeBail(p)
    \/ WakeCreate(p)
    \/ HydrogenFinish(p)
    \/ OxygenFinish(p)

Fine(p) ==
    \/ FlogEnter(p)
    \/ FlogLeave(p)
    \/ WaitMutex(p)
    \/ OxygenAdmit(p)
    \/ HydrogenAdmit(p)
    \/ WaitQueue(p)
    \/ CheckEnough(p)
    \/ OxygenBail(p)
    \/ HydrogenBail(p)
    \/ ReadCreated(p)
    \/ OxygenEval(p)

Next ==
    \/ MainParse
    \/ MainInit
    \/ MainFork
    \/ MainJoin
    \/ \E p \in Procs : Reduced(p)
    \/ \E p \in Procs : Shared(p)

Spec == Init /\ [][Next]_vars

\* The runs FineSpec explores: at most FineUnits units.
FineInit ==
    /\ Init
    /\ argv \in ValidArgv =>
         parse_argument(argv[1], MinUnits, LONG_MAX)
           + parse_argument(argv[2], MinUnits, LONG_MAX) <= FineUnits

FineNext ==
    \/ MainParse
    \/ MainInit
    \/ MainFork
    \/ MainJoin
    \/ \E p \in Procs : Fine(p)
    \/ \E p \in Procs : Shared(p)

FineSpec == FineInit /\ [][FineNext]_vars

\* ------------------------------------------------------------ fork failure
\* Most units of a run explored with failing forks.
ForkUnits == 3

\* main, lines 395/400 and 409/414, then 436-443: fork returns -1 with `spawned`
\* children running; "Fork error" is printed, kill(pids[i], SIGKILL) is called
\* for each of them and pids is freed.  kill returns once the signal is
\* generated; when each child dies is Die.
MainForkFail ==
    /\ mainpc = "spawn"
    /\ spawned < args.no + args.nh
    /\ mainpc' = "cleanup"
    /\ UNCHANGED <<argv, args, exitCode, shmAttached, logOpened, semsLive, spawned>>
    /\ UNCHANGED sharedVars
    /\ UNCHANGED <<log_line_number, sem>>
    /\ UNCHANGED childVars
    /\ UNCHANGED partyVars

\* main, lines 446-454 after a failed fork: destroy_semaphores, close_log,
\* destroy_shared and return 1.  Nothing between the kill loop and these calls
\* waits for a child.
MainCleanup ==
    /\ mainpc = "cleanup"
    /\ mainpc' = "exit"
    /\ exitCode' = 1
    /\ semsLive' = FALSE
    /\ shmAttached' = FALSE
    /\ UNCHANGED <<argv, args, logOpened, spawned>>
    /\ UNCHANGED sharedVars
    /\ UNCHANGED <<log_line_number, sem>>
    /\ UNCHANGED childVars
    /\ UNCHANGED partyVars

\* SIGKILL was generated for child p by the loop of lines 440-442.
Signalled(p) ==
    /\ p \in Spawned
    /\ \/ mainpc = "cleanup"
       \/ mainpc = "exit" /\ exitCode = 1

\* The child takes no step of its own any more.
Terminated(p) == pc[p] \in {"done", "killed"}

\* SIGKILL is delivered to child p, at whatever point of its code it is; what
\* it holds is not released.  An exited child is a zombie, on which the signal
\* has no effect.
Die(p) ==
    /\ Signalled(p)
    /\ ~Terminated(p)
    /\ pc' = [pc EXCEPT ![p] = "killed"]
    /\ UNCHANGED mainVars
    /\ UNCHANGED sharedVars
    /\ UNCHANGED <<log_line_number, sem, inflog, loc, lines, lognums>>
    /\ UNCHANGED partyVars

\* The runs ForkSpec explores: at most ForkUnits units.
ForkInit ==
    /\ Init
    /\ argv \in ValidArgv =>
         parse_argument(argv[1], MinUnits, LONG_MAX)
           + parse_argument(argv[2], MinUnits, LONG_MAX) <= ForkUnits

\* Next with forks that can fail.  A child goes on running until the signal is
\* delivered, also after the parent has destroyed the semaphores and removed
\* the segment: sem_destroy leaves the counter in the still attached memory of
\* the child as it is.
ForkNext ==
    \/ MainParse
    \/ MainInit
    \/ MainFork
    \/ MainForkFail
    \/ MainCleanup
    \/ MainJoin
    \/ \E p \in Procs : Die(p)
    \/ \E p \in Procs : Reduced(p)
    \/ \E p \in Procs : Shared(p)

ForkSpec == ForkInit /\ [][ForkNext]_vars

\* ------------------------------------------------------- shape of the state
TypeOK ==
    /\ mainpc \in {"parse", "init", "spawn", "cleanup", "exit"}
    /\ exitCode \in {-1, 0, 1}
    /\ spawned \in 0..(MaxNO + MaxNH)
    /\ \A s \in Sem : sem[s] \in 0..(MaxNO + MaxNH + 2)
    /\ turnstile_count \in 0..3
    /\ \A p \in Procs : pc[p] = "unborn" <=> p \notin Spawned

\* The unsigned differences of the supply test do not wrap.
CountersInRange ==
    /\ oxygen_processed <= args.no
    /\ hydrogen_processed <= args.nh
    /\ oxygen_count >= 0
    /\ hydrogen_count >= 0

\* ------------------------------------------------------------ log queries
Min(a, b) == IF a <= b THEN a ELSE b

\* The molecules NO oxygens and NH hydrogens can form.
Formable == Min(args.no, args.nh \div 2)

\* The molecule numbers unit p wrote in lines of event ev.
NumbersOf(p, ev) == {lines[p][i][2] : i \in {j \in 1..Len(lines[p]) : lines[p][j][1] = ev}}

\* How many lines of event ev unit p wrote.
CountOf(p, ev) == Cardinality({j \in 1..Len(lines[p]) : lines[p][j][1] = ev})

\* The units of a kind that wrote a line of event ev.
Writers(kind, ev) == {p \in Procs : Kind(p) = kind /\ CountOf(p, ev) > 0}

\* The units of a kind that wrote "molecule n created".
CreatedBy(kind, n) == {p \in Procs : Kind(p) = kind /\ n \in NumbersOf(p, "created")}

\* Every unit the run was configured with was forked and has exited.
AllTerminated ==
    /\ mainpc \in {"spawn", "exit"}
    /\ exitCode # 1
    /\ spawned = args.no + args.nh
    /\ \A p \in Spawned : pc[p] = "done"

\* Some unit is still alive and no process can take a step: the parent sits in
\* wait(NULL) and every live child in a sem_wait that nothing will post.
Stuck ==
    /\ mainpc = "spawn"
    /\ spawned = args.no + args.nh
    /\ \E p \in Spawned : pc[p] # "done"
    /\ ~ENABLED Next

\* The run has come to rest: every unit has exited, or nothing can move.
AtRest == AllTerminated \/ Stuck

\* ------------------------------------------------------------------ claims
\* C1: when all units have terminated, the number of molecules formed - the
\* final molecule_count, and the number of oxygens that wrote a "created" line -
\* is min(NO, NH div 2), whatever the interleaving.
C1_MoleculeCount ==
    AllTerminated =>
        /\ molecule_count = Formable
        /\ Cardinality(Writers("O", "created")) = Formable

\* C1 witness: a run of two oxygens and four hydrogens has ended with two molecules.
C1_Witness == AllTerminated /\ args.no = 2 /\ args.nh = 4 /\ molecule_count = 2

\* C2: deadlock freedom, as a property of states: no run reaches a state in
\* which a unit is alive and no process can ever take another step.
C2_NoDeadlock == ~Stuck

\* C3: once the run is at rest, the units outside every molecule have left
\* through the cascade: NO - m oxygens and NH - 2m hydrogens wrote a "not
\* enough" line, each one line, and none of them a molecule line.
C3_CascadeExits ==
    AtRest =>
        /\ Cardinality(Writers("O", "notenough")) = args.no - Formable
        /\ Cardinality(Writers("H", "notenough")) = args.nh - 2 * Formable
        /\ \A p \in Procs : CountOf(p, "notenough") <= 1
        /\ \A p \in Procs : CountOf(p, "notenough") = 1 =>
               CountOf(p, "creating") = 0 /\ CountOf(p, "created") = 0

\* C4: a molecule number in a "created" line is never written by a second
\* oxygen or a third hydrogen, and once all units have terminated it is
\* written by exactly one oxygen and exactly two hydrogens.
C4_ThreeCreatedLines ==
    \A n \in 1..(MaxNO + 1) :
        /\ Cardinality(CreatedBy("O", n)) <= 1
        /\ Cardinality(CreatedBy("H", n)) <= 2
        /\ (AllTerminated /\ CreatedBy("O", n) \cup CreatedBy("H", n) # {}) =>
               /\ Cardinality(CreatedBy("O", n)) = 1
               /\ Cardinality(CreatedBy("H", n)) = 2

\* C5: a unit that wrote "molecule n created" wrote "creating molecule n"
\* before, with the same n.
C5_CreatingMatchesCreated ==
    \A p \in Procs : NumbersOf(p, "created") \subseteq NumbersOf(p, "creating")

\* C6: the sequence numbers of the log lines, in file order, are 1, 2, 3, ...:
\* the i-th line of the file carries the number i, under every interleaving of
\* the flog calls.
C6_LogNumbers == \A i \in 1..Len(lognums) : lognums[i] = i

\* C6 witness: a unit is inside flog while another unit has called flog and
\* waits for the log mutex, with lines already written.
C6_Witness ==
    /\ inflog # {}
    /\ \E q \in Procs \ inflog : pc[q] \in FlogSites
    /\ Len(lognums) >= 4

\* The events of unit p's lines, in file order.
Events(p) == [i \in 1..Len(lines[p]) |-> lines[p][i][1]]

IsPrefix(s, t) == Len(s) <= Len(t) /\ \A i \in 1..Len(s) : s[i] = t[i]

BailOrder == <<"started", "going", "notenough">>
MoleculeOrder == <<"started", "going", "creating", "created">>

\* C7: the lines of one unit come in the order started, going to queue, and
\* then either one "not enough" line or "creating molecule" followed by
\* "molecule created"; a unit that has exited wrote one of the two sequences in
\* full, and no unit writes both a "not enough" and a molecule line.
C7_UnitOrder ==
    \A p \in Procs :
        /\ IsPrefix(Events(p), BailOrder) \/ IsPrefix(Events(p), MoleculeOrder)
        /\ pc[p] = "done" => Events(p) \in {BailOrder, MoleculeOrder}

\* C7 witness: a run in which one unit has exited after its "not enough" line
\* and another after its "molecule created" line.
C7_Witness ==
    \E p, q \in Procs :
        /\ pc[p] = "done" /\ Events(p) = BailOrder
        /\ pc[q] = "done" /\ Events(q) = MoleculeOrder

\* How many "creating molecule" and "not enough" lines each unit has written.
CreatingLines == [p \in Procs |-> CountOf(p, "creating")]
NotEnoughLines == [p \in Procs |-> CountOf(p, "notenough")]

\* C8: not_enough is sticky and final: a step taken while it is true leaves it
\* true, writes no "creating molecule" line, changes none of molecule_count,
\* oxygen_processed, hydrogen_processed, and a unit it releases from its queue
\* leaves through the "not enough" exit.
C8_Sticky ==
    [][not_enough =>
          /\ not_enough'
          /\ CreatingLines' = CreatingLines
          /\ molecule_count' = molecule_count
          /\ oxygen_processed' = oxygen_processed
          /\ hydrogen_processed' = hydrogen_processed
          /\ \A p \in Procs : (pc[p] = "queue" /\ pc'[p] # "queue") =>
                 pc'[p] = "done" /\ NotEnoughLines'[p] = 1]_vars

\* C8 witness: after a molecule was formed not_enough is set and a unit has left
\* through the "not enough" exit.
C8_Witness ==
    /\ not_enough
    /\ molecule_count >= 1
    /\ \E p \in Procs : pc[p] = "done" /\ CountOf(p, "notenough") = 1

\* The arguments NO=0 NH=5 TI=0 TB=0.
ZeroOxygenArgv == <<<<"0">>, <<"5">>, <<"0">>, <<"0">>>>

\* C9 as stated: the run with NO=0 and NH=5 ends with exit code 0 after the
\* startup cascade: not_enough set, five hydrogens with a "not enough" line, no
\* molecule.
C9_ZeroOxygenCascade ==
    (argv = ZeroOxygenArgv /\ mainpc = "exit") =>
        /\ exitCode = 0
        /\ not_enough
        /\ molecule_count = 0
        /\ \A i \in 1..5 : <<"H", i>> \in Procs /\ CountOf(<<"H", i>>, "notenough") = 1

\* C9 as amended: the run with NO=0 and NH=5 is rejected by parse_argument: it
\* never gets past the parsing, sets not_enough at no time, forks no unit,
\* writes no line, forms no molecule and ends with exit code 1.
C9_ZeroOxygenRejected ==
    argv = ZeroOxygenArgv =>
        /\ mainpc \in {"parse", "exit"}
        /\ ~not_enough
        /\ spawned = 0
        /\ molecule_count = 0
        /\ \A p \in Procs : lines[p] = <<>>
        /\ mainpc = "exit" => exitCode = 1

\* C9 witness: the run with NO=0 and NH=5 has ended.
C9_Witness == argv = ZeroOxygenArgv /\ mainpc = "exit"

\* The argument vectors with an argument out of range or not a number: NO=0,
\* NH=0, TI=2000, TB=1001, NO=x, NH=3x, TI empty.
BadArgv == {v \in InvalidArgv : Len(v) = 4}

\* C10: with an argument out of range or not a number the program ends with
\* exit code 1 and without shared memory, log file, semaphores, children or log
\* lines ever having existed.
C10_BadArgumentExit ==
    argv \in BadArgv =>
        /\ mainpc \in {"parse", "exit"}
        /\ ~shmAttached
        /\ ~logOpened
        /\ ~semsLive
        /\ spawned = 0
        /\ lognums = <<>>
        /\ mainpc = "exit" => exitCode = 1

\* C10 witness: the run with TI=2000 has ended.
C10_Witness ==
    /\ argv = <<<<"1">>, <<"2">>, <<"2", "0", "0", "0">>, <<"0">>>>
    /\ mainpc = "exit"

\* ----------------------------------------------------------------- parties
\* The units that went on to create a molecule with a token of reservation k.
Members(k) == {p \in Procs : party[p] = k}

\* Unit p has logged "creating molecule", called barrier() and been counted in
\* turnstile_count (line 202).
Arrived(p) ==
    /\ party[p] > 0
    /\ CountOf(p, "creating") = 1
    /\ pc[p] \notin {"creating", "incr", "hp_load", "hp_store", "b_in"}

\* Unit p has passed the second turnstile (line 218): barrier() has returned.
Returned(p) ==
    /\ party[p] > 0
    /\ pc[p] \in {"rd_created", "created", "eval", "done"}

\* Unit p is between the first and the last line of barrier().
InBarrier(p) == pc[p] \in {"b_in", "b_in3", "b_t1", "b_out", "b_out0", "b_t2"}

\* C11: barrier() returns for no member of a party before all three members of
\* that party have logged "creating molecule" and arrived at the barrier, also
\* while members of the party before are still at the second turnstile.
C11_BarrierHoldsParty ==
    \A p \in Procs :
        Returned(p) => Cardinality({q \in Members(party[p]) : Arrived(q)}) = 3

\* A member of the second party has returned from barrier() while a member of
\* the first party still waits at the second turnstile.
C11_Witness ==
    \E p, q \in Procs :
        /\ party[p] = 2
        /\ Returned(p)
        /\ party[q] = 1
        /\ pc[q] = "b_t2"

\* ------------------------------------------------------ consumption counters
\* A step of unit p that writes a consumption counter with a new value.
Counts(p) ==
    /\ pc'[p] # pc[p]
    /\ \/ Kind(p) = "O" /\ oxygen_processed' # oxygen_processed
       \/ Kind(p) = "H" /\ hydrogen_processed' # hydrogen_processed

ChangesCounter ==
    oxygen_processed' # oxygen_processed \/ hydrogen_processed' # hydrogen_processed

\* C12, as claimed: a consumption counter changes only in a step of a
\* participant that barrier() has released and that has logged its "molecule
\* created" line.
C12_CountAfterCreated ==
    [][ChangesCounter =>
         \E p \in Procs : Counts(p) /\ Returned(p) /\ CountOf(p, "created") = 1]_vars

\* C12, amended: a consumption counter changes only in a step of a participant
\* that has logged "creating molecule", has not yet arrived at the barrier and
\* has no "molecule created" line; the step takes it to the first line of
\* barrier(), and the oxygen's step adds exactly one to oxygen_processed.
C12_CountBeforeBarrier ==
    [][/\ ChangesCounter =>
            \E p \in Procs : /\ Counts(p)
                             /\ CountOf(p, "creating") = 1
                             /\ CountOf(p, "created") = 0
                             /\ ~Arrived(p)
                             /\ pc'[p] = "b_in"
       /\ \A p \in Oxygens :
            pc[p] # "b_in" /\ pc'[p] = "b_in"
                => oxygen_processed' = oxygen_processed + 1]_vars

\* Both hydrogens of a party have counted themselves and wait to be counted by
\* the barrier; neither has a "molecule created" line.
C12_Witness ==
    \E p, q \in Hydrogens :
        /\ p # q
        /\ pc[p] = "b_in"
        /\ pc[q] = "b_in"
        /\ hydrogen_processed = 2
        /\ oxygen_processed = 1
        /\ CountOf(p, "created") = 0

\* C13: no member of party N+1 is counted in turnstile_count (line 202) while a
\* member of party N is still inside barrier(), a member waiting at the second
\* turnstile included.
C13_PartiesOrdered ==
    [][\A p \in Procs :
         pc[p] = "b_in" /\ pc'[p] # "b_in"
            => \A q \in Procs : party[q] < party[p] => ~InBarrier(q)]_vars

\* ---------------------------------------------------------------- admission
\* A unit is inside the admission critical section (lines 241-250, 311-320).
InAdmission(p) == pc[p] = "admit"

\* C14: whenever no unit is inside the admission critical section, and so
\* right after every admission step, one that reserves a molecule included,
\* oxygen_count < 1 or hydrogen_count < 2.
C14_Drained ==
    /\ []((\A p \in Procs : ~InAdmission(p))
            => (oxygen_count < 1 \/ hydrogen_count < 2))
    /\ [][reserved' # reserved => (oxygen_count' < 1 \/ hydrogen_count' < 2)]_vars

\* A reservation was made by a hydrogen that found a hydrogen and two oxygens
\* waiting: an oxygen is left in the count, no hydrogen.
C14_Witness ==
    /\ reserved = 1
    /\ oxygen_count = 1
    /\ hydrogen_count = 0
    /\ \A p \in Procs : ~InAdmission(p)
    /\ \E p \in Hydrogens : pc[p] = "queue"
    /\ \A p \in Oxygens : pc[p] = "queue"

\* ---------------------------------------------------------- shutdown decision
\* The step in which oxygen p evaluates the remaining supply (lines 276-283) and
\* leaves; in the reduced steps it begins with the "molecule created" line.
Evaluates(p) ==
    /\ Kind(p) = "O"
    /\ pc[p] \in {"rd_created", "eval"}
    /\ pc'[p] = "done"

\* C15: after a molecule only the oxygen of the party evaluates the supply, with
\* rO = NO - oxygen_processed and rH = NH - hydrogen_processed: rO >= 1 and
\* rH < 2 sets not_enough and posts one token to the oxygen queue only; else
\* rO = 0 and rH > 0 sets not_enough and posts one token to the hydrogen queue
\* only; else flag and queues stay as they are.  So the step sets not_enough
\* exactly when units remain unprocessed and no further molecule can be formed.
C15_ShutdownDecision ==
    [][LET rO == args.no - oxygen_processed
           rH == args.nh - hydrogen_processed
           oq == sem["SEM_OXYGEN_QUEUE"]
           hq == sem["SEM_HYDROGEN_QUEUE"]
           oq2 == sem'["SEM_OXYGEN_QUEUE"]
           hq2 == sem'["SEM_HYDROGEN_QUEUE"]
       IN /\ \A p \in Oxygens :
                Evaluates(p) =>
                  /\ IF rO >= 1 /\ rH < 2
                     THEN not_enough' /\ oq2 = oq + 1 /\ hq2 = hq
                     ELSE IF rO = 0 /\ rH > 0
                          THEN not_enough' /\ hq2 = hq + 1 /\ oq2 = oq
                          ELSE not_enough' = not_enough /\ oq2 = oq /\ hq2 = hq
                  /\ ~not_enough
                  /\ not_enough' <=> (rO + rH > 0 /\ ~(rO >= 1 /\ rH >= 2))
          /\ \A p \in Hydrogens :
                pc[p] \in {"rd_created", "created"} /\ pc'[p] # pc[p]
                    => not_enough' = not_enough /\ oq2 = oq /\ hq2 = hq
          /\ (not_enough' # not_enough /\ mainpc = "spawn")
                => \E p \in Oxygens : Evaluates(p)]_vars

\* The oxygen of molecule 1 has found an oxygen left and fewer than two
\* hydrogens, and has left; the token it posted is still in the oxygen queue.
C15_Witness ==
    /\ not_enough
    /\ molecule_count = 1
    /\ args.no - oxygen_processed >= 1
    /\ args.nh - hydrogen_processed < 2
    /\ sem["SEM_OXYGEN_QUEUE"] = 1
    /\ \E p \in Oxygens : pc[p] = "done" /\ CountOf(p, "created") = 1

\* ------------------------------------------------------------ startup case
\* The arguments were accepted with fewer than two hydrogens.
TooFewHydrogens == mainpc = "spawn" /\ args.no >= 1 /\ args.nh < 2

\* C16: with NO >= 1 and NH < 2, not_enough is true and each queue holds one
\* token before a unit is spawned; no reservation is ever made, molecule_count
\* stays 0, no unit is left blocked, and every unit leaves through the "not
\* enough" exit.
C16_StartupCascade ==
    TooFewHydrogens =>
        /\ not_enough
        /\ spawned = 0 => /\ sem["SEM_OXYGEN_QUEUE"] = 1
                          /\ sem["SEM_HYDROGEN_QUEUE"] = 1
        /\ reserved = 0
        /\ molecule_count = 0
        /\ \A p \in Procs : CountOf(p, "creating") = 0 /\ party[p] = 0
        /\ ~Stuck
        /\ \A p \in Procs : pc[p] = "done" => CountOf(p, "notenough") = 1

\* Two oxygens and one hydrogen have all left through the "not enough" exit.
C16_Witness ==
    /\ TooFewHydrogens
    /\ args.no = 2
    /\ spawned = 3
    /\ \A p \in Spawned : pc[p] = "done" /\ CountOf(p, "notenough") = 1

\* C17: when the oxygen of the k-th molecule is about to evaluate the remaining
\* supply (it has returned from barrier() and molecule_count is k),
\* oxygen_processed is k and hydrogen_processed is 2k: no increment of
\* hydrogen_processed is lost.
C17_CountersExact ==
    \A p \in Oxygens :
        pc[p] \in {"rd_created", "created", "eval"}
            => /\ oxygen_processed = molecule_count
               /\ hydrogen_processed = 2 * molecule_count

\* C18: SEM_MUTEX is a binary lock: its value never exceeds 1 and at most one
\* unit is inside the admission critical section, also after oxygens have left
\* through the "not enough" exit.
C18_MutexBinary ==
    /\ sem["SEM_MUTEX"] <= 1
    /\ Cardinality({p \in Procs : InAdmission(p)}) <= 1

\* ------------------------------------------------------- party in progress
\* The oxygens that created a molecule and have posted SEM_MUTEX (line 286).
Completed == {p \in Oxygens : party[p] > 0 /\ pc[p] = "done"}

\* A reservation was made and the oxygen of its party has not yet posted
\* SEM_MUTEX.
InProgress == reserved > Cardinality(Completed)

\* C19: at most one creation party is in progress; from the reservation until
\* the oxygen of the party has passed the barrier, logged "molecule created"
\* and evaluated the supply, SEM_MUTEX stays held, no other reservation is made
\* and oxygen_count and hydrogen_count do not change; the mutex is posted once
\* per molecule, by that oxygen.
C19_OnePartyInProgress ==
    /\ [](/\ reserved - Cardinality(Completed) \in {0, 1}
          /\ InProgress => sem["SEM_MUTEX"] = 0)
    /\ [][InProgress =>
            /\ reserved' = reserved
            /\ oxygen_count' = oxygen_count
            /\ hydrogen_count' = hydrogen_count
            /\ sem'["SEM_MUTEX"] # sem["SEM_MUTEX"] =>
                  /\ sem'["SEM_MUTEX"] = 1
                  /\ \E p \in Oxygens : /\ Evaluates(p)
                                        /\ party[p] = reserved
                                        /\ CountOf(p, "created")' = 1
                  /\ ~InProgress']_vars

\* The oxygen of the first party has returned from barrier() and has yet to
\* post SEM_MUTEX; another unit waits for the mutex.
C19_Witness ==
    /\ reserved = 1
    /\ InProgress
    /\ \E p \in Oxygens : party[p] = 1 /\ pc[p] = "rd_created"
    /\ \E q \in Procs : pc[q] = "mutex"
    /\ sem["SEM_MUTEX"] = 0

\* ---------------------------------------------------------------- lifecycle
\* C20: on the normal path and on the fork-error path of main, the semaphores
\* and the shared memory are destroyed only after every spawned unit has
\* terminated; after a failed fork all units spawned before it are terminated
\* and the exit code is 1.
C20_DestroyedAfterUnits ==
    /\ (mainpc = "exit" /\ ~semsLive) => \A p \in Spawned : Terminated(p)
    /\ (mainpc = "exit" /\ spawned < args.no + args.nh) => exitCode = 1
====
